---- MODULE Spec2Model ----
(***************************************************************************)
(* Model of baremetal/metal3datatemplate_manager.go: the DataTemplate      *)
(* manager that allocates an index per Metal3Machine owner reference,      *)
(* creates one Metal3Data per owner, rebuilds its status from the          *)
(* Metal3Data objects and deletes the Metal3Data of departed owners.       *)
(***************************************************************************)
EXTENDS Integers, Sequences, FiniteSets, TLC

VARIABLES
    DataTemplate,   \* m.DataTemplate of each manager: the in-memory template
    world,          \* the Metal3Data objects of the template's namespace
    m3machines,     \* names of the Metal3Machines that resolve for this template
    now,            \* the clock read by metav1.Now()
    faults,         \* collaborator errors still to come
    last,           \* what the last call did and returned
    arg,            \* input of the function applied (SpecAlloc)
    res             \* its result

vars == <<DataTemplate, world, m3machines, now, faults, last, arg, res>>

----------------------------------------------------------------------------
(* Bounds *)

MaxKey == 10         \* SpecAlloc: keys of the index map are Itoa(0..MaxKey)
MaxFaults == 1       \* collaborator errors per behaviour
MaxRefs == 2         \* owner references on the template
MaxIndex == 1        \* SpecRace: highest index of a Metal3Data in the world
MaxReadyRefs == 3    \* SpecReady: owner references given to DeleteReady

----------------------------------------------------------------------------
(* Names and encodings *)

Nil == "<nil>"                         \* a nil *corev1.ObjectReference to a machine
NoTemplate == <<>>                     \* a nil *corev1.ObjectReference to a template
GroupName == "infrastructure.cluster.x-k8s.io"
ClusterLabelName == "cluster.x-k8s.io/cluster-name"
TemplateName == <<"tpl">>              \* m.DataTemplate.Name, as its characters
Machines == {"m1", "m2"}               \* the Metal3Machines that exist
GoneMachine == "m3"                    \* a Metal3Machine that no longer exists
InitIndexes == {0, 1}                  \* indexes of the Metal3Data found at the start
Managers == {"r1", "r2"}

Digit == <<"0", "1", "2", "3", "4", "5", "6", "7", "8", "9">>

\* strconv.Itoa: the decimal digits of n, most significant first
RECURSIVE Itoa(_)
Itoa(n) ==
    IF n < 0 THEN <<"-">> \o Itoa(-n)
    ELSE IF n < 10 THEN <<Digit[n + 1]>>
    ELSE Itoa(n \div 10) \o <<Digit[(n % 10) + 1]>>

\* a faulty variant: the name without the dash
DataNameNoDash(tname, machineIndex) == tname \o machineIndex

\* m.DataTemplate.Name + "-" + machineIndex
DataName(tname, machineIndex) == tname \o <<"-">> \o machineIndex

\* schema.ParseGroupVersion on an apiVersion given as its "/"-separated parts
ParseGroupVersion(gv) ==
    IF gv = <<"">> \/ gv = <<"", "">>
    THEN [Group |-> "", Version |-> "", err |-> FALSE]
    ELSE IF Len(gv) = 1 THEN [Group |-> "", Version |-> gv[1], err |-> FALSE]
    ELSE IF Len(gv) = 2 THEN [Group |-> gv[1], Version |-> gv[2], err |-> FALSE]
    ELSE [Group |-> "", Version |-> "", err |-> TRUE]

----------------------------------------------------------------------------
(* Go maps *)

EmptyMap == [k \in {} |-> Nil]
MapPut(m, k, v) == [x \in (DOMAIN m) \cup {k} |-> IF x = k THEN v ELSE m[x]]
MapDelete(m, k) == [x \in (DOMAIN m) \ {k} |-> m[x]]
MapLen(m) == Cardinality(DOMAIN m)
MapValues(m) == {m[k] : k \in DOMAIN m}

RECURSIVE Orderings(_)
Orderings(S) ==
    IF S = {} THEN {<<>>}
    ELSE UNION {{<<x>> \o r : r \in Orderings(S \ {x})} : x \in S}

----------------------------------------------------------------------------
(* Index allocation, CreateDatas lines 192-204 *)

RECURSIVE AllocScan(_, _, _)
AllocScan(indexes, index, machineIndexInt) ==
    IF index >= MapLen(indexes) THEN machineIndexInt
    ELSE IF Itoa(index) \notin DOMAIN indexes /\ machineIndexInt = MapLen(indexes)
         THEN index
         ELSE AllocScan(indexes, index + 1, machineIndexInt)

\* a faulty variant: the length of the map, without the scan for a gap
AllocIndexNoGap(indexes) == MapLen(indexes)

AllocIndex(indexes) == AllocScan(indexes, 0, MapLen(indexes))

----------------------------------------------------------------------------
(* Owner references *)

M3MRef(n) == [APIVersion |-> <<GroupName, "v1alpha4">>, Kind |-> "Metal3Machine", Name |-> n]
ClusterRef == [APIVersion |-> <<GroupName, "v1alpha4">>, Kind |-> "Metal3Cluster", Name |-> "c1"]
ForeignM3MRef == [APIVersion |-> <<"other.io", "v1">>, Kind |-> "Metal3Machine", Name |-> "m1"]
CoreRef == [APIVersion |-> <<"v1">>, Kind |-> "ConfigMap", Name |-> "cm"]
BadRef == [APIVersion |-> <<"a", "b", "c">>, Kind |-> "Metal3Machine", Name |-> "m2"]

\* the test of CreateDatas (157-158) and DeleteDatas (286-287), negated:
\* the reference is a Metal3Machine of the provider's API group
IsM3MRef(ref) ==
    ~(ref.Kind # "Metal3Machine" \/ ParseGroupVersion(ref.APIVersion).Group # GroupName)

SeqsUpTo(S, n) == UNION {[1..k -> S] : k \in 0..n}
NoRepeat(s) == \A i, j \in 1..Len(s) : i # j => s[i] # s[j]

----------------------------------------------------------------------------
(* The template and the Metal3Data objects *)

Template(refs, labels) ==
    [Name |-> TemplateName, OwnerReferences |-> refs, Labels |-> labels,
     Status |-> [Indexes |-> EmptyMap, DataNames |-> EmptyMap, LastUpdated |-> 0]]

\* a faulty variant: the object is named after its owner, not after its index
Metal3DataNamedByOwner(t, machineIndexInt, dataName, ownerName) ==
    [Name |-> t.Name \o <<"-", ownerName>>, Index |-> machineIndexInt,
     DataTemplate |-> t.Name, Metal3Machine |-> ownerName]

\* the Metal3Data of lines 216-248
Metal3Data(t, machineIndexInt, dataName, ownerName) ==
    [Name |-> dataName, Index |-> machineIndexInt,
     DataTemplate |-> t.Name, Metal3Machine |-> ownerName]

\* client.Create of the API server: AlreadyExists when the name is taken
NameTaken(w, name) == \E o \in w : o.Name = name

\* updateStatusTimestamp, lines 139-142
UpdateStatusTimestamp(t, clk) == [t EXCEPT !.Status.LastUpdated = clk]

\* metav1.Now(): the readings never go back; the zero time is 0, and
\* readings after the last instant fall within the clock's resolution
Clock == {1, 2}
Later(clk) == IF clk + 1 \in Clock THEN clk + 1 ELSE clk

----------------------------------------------------------------------------
(* A call in progress: the template it works on, the world, the errors the *)
(* collaborators may still return, and a record of what the call did.      *)

Running == "running"
Call(op, t, w, budget) ==
    [op |-> op, t |-> t, w |-> w, budget |-> budget, ret |-> Running,
     requeueNeeded |-> FALSE, visited |-> 0, recreated |-> 0,
     created |-> {}, conflicts |-> {}, gets |-> {}, deletes |-> {},
     injected |-> FALSE]

Return(s, ret) == [s EXCEPT !.ret = ret]

\* a faulty variant: the collaborator's error is swallowed and the call goes on
InjectAndGoOn(s, ret) == [s EXCEPT !.budget = @ - 1, !.injected = TRUE]
Inject(s, ret) == [s EXCEPT !.ret = ret, !.budget = @ - 1, !.injected = TRUE]

----------------------------------------------------------------------------
(* RecreateStatus, lines 93-137 *)

\* a faulty variant: a Metal3Data without a machine is discarded too
RecreateItemNoOrphan(t, dataObject) ==
    IF dataObject.DataTemplate = NoTemplate THEN t
    ELSE IF dataObject.DataTemplate # t.Name THEN t
    ELSE IF dataObject.Metal3Machine = Nil THEN t
    ELSE [t EXCEPT !.Status.Indexes =
                       MapPut(@, Itoa(dataObject.Index), dataObject.Metal3Machine),
                   !.Status.DataNames =
                       MapPut(@, dataObject.Metal3Machine, dataObject.Name)]

\* one Metal3Data of the listing, lines 115-133
RecreateItem(t, dataObject) ==
    IF dataObject.DataTemplate = NoTemplate THEN t
    ELSE IF dataObject.DataTemplate # t.Name THEN t
    ELSE LET machineName ==
                 IF dataObject.Metal3Machine # Nil THEN dataObject.Metal3Machine ELSE ""
         IN [t EXCEPT !.Status.Indexes = MapPut(@, Itoa(dataObject.Index), machineName),
                      !.Status.DataNames = MapPut(@, machineName, dataObject.Name)]

RECURSIVE RecreateFold(_, _, _)
RecreateFold(t, items, i) ==
    IF i > Len(items) THEN t
    ELSE RecreateFold(RecreateItem(t, items[i]), items, i + 1)

\* start from empty maps, lines 98-100
ClearStatus(t) ==
    [t EXCEPT !.Status.Indexes = EmptyMap, !.Status.DataNames = EmptyMap]

\* a faulty variant: the loop discards every item
KeptNone(t, items) == {}

\* the items the loop does not discard (lines 117-123)
Kept(t, items) ==
    {dataObject \in items : RecreateItem(ClearStatus(t), dataObject) # ClearStatus(t)}

\* every way the call can end: List fails, or returns the objects in some
\* order. A discarded item leaves the status alone wherever it stands in the
\* list, so the orders of the kept items are all the orders there are.
RecreateStatusOutcomes(s, clk) ==
    LET t0 == ClearStatus(s.t)
        s0 == [s EXCEPT !.t = t0, !.recreated = @ + 1]
    IN  (IF s.budget > 0 THEN {Inject(s0, "ListError")} ELSE {})
        \cup
        {[s0 EXCEPT !.t = UpdateStatusTimestamp(RecreateFold(t0, items, 1), clk)] :
            items \in Orderings(Kept(s.t, s.w))}

\* RecreateStatusConditionally, lines 82-91
RecreateStatusConditionallyOutcomes(s, clk) ==
    IF s.t.Status.LastUpdated = 0
    THEN {IF x.ret = Running THEN Return(x, "nil") ELSE x :
             x \in RecreateStatusOutcomes(s, clk)}
    ELSE {Return(s, "nil")}

----------------------------------------------------------------------------
(* CreateDatas, lines 144-270 *)

\* getM3Machine: a collaborator error, no such machine (nil, nil), or the machine
ResolveOutcomes(s, name, machines) ==
    (IF s.budget > 0 THEN {"error"} ELSE {})
    \cup {IF name \in machines THEN "found" ELSE "notfound"}

\* createObject, lines 250-263: AlreadyExists comes back as the requeue error,
\* any other failure as itself
CreateObjectOutcomes(s, dataObject) ==
    (IF s.budget > 0 THEN {"error"} ELSE {})
    \cup {IF NameTaken(s.w, dataObject.Name) THEN "conflict" ELSE "created"}

\* lines 206-210: the index and the name are recorded before the create call
RecordIndex(t, machineIndex, ownerName, dataName) ==
    [t EXCEPT !.Status.Indexes = MapPut(@, machineIndex, ownerName),
              !.Status.DataNames = MapPut(@, ownerName, dataName)]

\* a faulty variant: the label is taken as present
HasClusterLabelAlways(t) == TRUE

\* lines 181-182: the template has the cluster label
HasClusterLabel(t) == ClusterLabelName \in t.Labels

\* lines 180-263 for an owner that resolved: label, index, names, create
CreateForOwner(s, curOwnerRef, clk) ==
    IF ~HasClusterLabel(s.t) THEN {Return(s, "NoClusterName")}
    ELSE
    LET machineIndexInt == AllocIndex(s.t.Status.Indexes)
        machineIndex == Itoa(machineIndexInt)
        dataName == DataName(s.t.Name, machineIndex)
        t1 == RecordIndex(s.t, machineIndex, curOwnerRef.Name, dataName)
        dataObject == Metal3Data(s.t, machineIndexInt, dataName, curOwnerRef.Name)
        s1 == [s EXCEPT !.t = t1]
    IN UNION {
         CASE out = "error" -> {Inject(s1, "CreateError")}
           [] out = "created" ->
                {[s1 EXCEPT !.w = @ \cup {dataObject}, !.created = @ \cup {dataObject}]}
           [] out = "conflict" ->
                {IF x.ret = Running THEN [x EXCEPT !.requeueNeeded = TRUE] ELSE x :
                    x \in RecreateStatusOutcomes(
                            [s1 EXCEPT !.conflicts = @ \cup {curOwnerRef.Name}], clk)}
         : out \in CreateObjectOutcomes(s1, dataObject)}

\* a faulty variant: an owner is never taken as provisioned
HasEntryNever(t, ownerName) == FALSE

\* lines 162-165: the owner already has an entry
HasEntry(t, ownerName) == ownerName \in DOMAIN t.Status.DataNames

\* one iteration of the loop over the owner references, lines 149-264;
\* an outcome still Running goes on with the next reference
CreateIter(s0, curOwnerRef, machines, clk) ==
    LET s == [s0 EXCEPT !.visited = @ + 1]
        curOwnerRefGV == ParseGroupVersion(curOwnerRef.APIVersion)
    IN  IF curOwnerRefGV.err THEN {Return(s, "ParseError")}
        ELSE IF curOwnerRef.Kind # "Metal3Machine" \/ curOwnerRefGV.Group # GroupName
        THEN {s}
        ELSE IF HasEntry(s.t, curOwnerRef.Name) THEN {s}
        ELSE UNION {
               CASE r = "error" -> {Inject(s, "ResolveError")}
                 [] r = "notfound" -> {s}
                 [] r = "found" -> CreateForOwner(s, curOwnerRef, clk)
               : r \in ResolveOutcomes(s, curOwnerRef.Name, machines)}

\* a faulty variant: the requeue flag is dropped at the end of the pass
CreateReturnNoRequeue(s, clk) ==
    [s EXCEPT !.t = UpdateStatusTimestamp(s.t, clk), !.ret = "nil"]

\* lines 265-269
CreateReturn(s, clk) ==
    [s EXCEPT !.t = UpdateStatusTimestamp(s.t, clk),
              !.ret = IF s.requeueNeeded THEN "RequeueAfterError" ELSE "nil"]

RECURSIVE CreateLoop(_, _, _, _)
CreateLoop(s, i, machines, clk) ==
    IF i > Len(s.t.OwnerReferences) THEN {CreateReturn(s, clk)}
    ELSE UNION {IF x.ret # Running THEN {x} ELSE CreateLoop(x, i + 1, machines, clk) :
                   x \in CreateIter(s, s.t.OwnerReferences[i], machines, clk)}

CreateDatasOutcomes(s, machines, clk) == CreateLoop(s, 1, machines, clk)

----------------------------------------------------------------------------
(* DeleteDatas, lines 272-334 *)

\* a faulty variant: no owner is ever found among the owner references
OwnerPresentNever(refs, machineName, i) == "absent"

\* the loop over the owner references, lines 279-296
RECURSIVE OwnerPresent(_, _, _)
OwnerPresent(refs, machineName, i) ==
    IF i > Len(refs) THEN "absent"
    ELSE LET curOwnerRefGV == ParseGroupVersion(refs[i].APIVersion)
         IN  IF curOwnerRefGV.err THEN "error"
             ELSE IF refs[i].Kind # "Metal3Machine" \/ curOwnerRefGV.Group # GroupName
             THEN OwnerPresent(refs, machineName, i + 1)
             ELSE IF machineName = refs[i].Name THEN "present"
             ELSE OwnerPresent(refs, machineName, i + 1)

\* m.client.Get, line 311
GetOutcomes(s, dataName) ==
    (IF s.budget > 0 THEN {"error"} ELSE {})
    \cup {IF NameTaken(s.w, dataName) THEN "found" ELSE "notfound"}

\* m.client.Delete, line 316: an error, the object deleted, or not found
\* because another client deleted it after the Get ("gone")
DeleteOutcomes(s, dataName) ==
    (IF s.budget > 0 THEN {"error", "gone"} ELSE {})
    \cup {IF NameTaken(s.w, dataName) THEN "deleted" ELSE "notfound"}

\* the collaborator answered for something another client did meanwhile
Interfere(s) == [s EXCEPT !.budget = @ - 1, !.injected = TRUE]

\* lines 322-327: the last index found for the name, in the map's iteration
\* order; the empty string when there is none
DeletionIndexes(t, machineName) ==
    LET found == {index \in DOMAIN t.Status.Indexes :
                     t.Status.Indexes[index] = machineName}
    IN  IF found = {} THEN {<<>>} ELSE found

\* lines 328-329
RemoveEntries(s, machineName) ==
    {[s EXCEPT !.t.Status.Indexes = MapDelete(@, deletionIndex),
               !.t.Status.DataNames = MapDelete(@, machineName)] :
        deletionIndex \in DeletionIndexes(s.t, machineName)}

\* one entry of DataNames, lines 276-331
DeleteEntry(s, machineName) ==
    LET dataName == s.t.Status.DataNames[machineName]
        present == OwnerPresent(s.t.OwnerReferences, machineName, 1)
    IN  IF present = "error" THEN {Return(s, "ParseError")}
        ELSE IF present = "present" THEN {s}
        ELSE LET s1 == [s EXCEPT !.gets = @ \cup {machineName}]
                 s2 == [s1 EXCEPT !.deletes = @ \cup {machineName}]
                 s3 == [s2 EXCEPT !.w = {o \in @ : o.Name # dataName}]
             IN UNION {
                  CASE g = "error" -> {Inject(s1, "GetError")}
                    [] g = "notfound" -> RemoveEntries(s1, machineName)
                    [] g = "found" ->
                         UNION {IF d = "error" THEN {Inject(s2, "DeleteError")}
                                ELSE IF d = "gone"
                                THEN RemoveEntries(Interfere(s3), machineName)
                                ELSE RemoveEntries(s3, machineName)
                                : d \in DeleteOutcomes(s1, dataName)}
                  : g \in GetOutcomes(s1, dataName)}

\* line 332-333
DeleteReturn(s, clk) ==
    [s EXCEPT !.t = UpdateStatusTimestamp(s.t, clk), !.ret = "nil"]

\* the range over DataNames visits every key once, in any order
RECURSIVE DeleteLoop(_, _, _)
DeleteLoop(s, todo, clk) ==
    IF todo = {} THEN {DeleteReturn(s, clk)}
    ELSE UNION {
           UNION {IF x.ret # Running THEN {x}
                  ELSE DeleteLoop(x, todo \ {machineName}, clk)
                  : x \in DeleteEntry(s, machineName)}
           : machineName \in todo}

DeleteDatasOutcomes(s, clk) == DeleteLoop(s, DOMAIN s.t.Status.DataNames, clk)

----------------------------------------------------------------------------
(* DeleteReady, lines 336-353 *)

RECURSIVE DeleteReadyFrom(_, _)
DeleteReadyFrom(refs, i) ==
    IF i > Len(refs) THEN [ready |-> TRUE, err |-> FALSE]
    ELSE LET curOwnerRefGV == ParseGroupVersion(refs[i].APIVersion)
         IN  IF curOwnerRefGV.err THEN [ready |-> FALSE, err |-> TRUE]
             ELSE IF refs[i].Kind = "Metal3Machine" \/ curOwnerRefGV.Group = GroupName
             THEN [ready |-> FALSE, err |-> FALSE]
             ELSE DeleteReadyFrom(refs, i + 1)

DeleteReadyOf(t) == DeleteReadyFrom(t.OwnerReferences, 1)

----------------------------------------------------------------------------
(* What a call leaves in `last` *)

Log(s) ==
    [op |-> s.op, ret |-> s.ret, requeueNeeded |-> s.requeueNeeded,
     visited |-> s.visited, recreated |-> s.recreated, created |-> s.created,
     conflicts |-> s.conflicts, gets |-> s.gets, deletes |-> s.deletes,
     injected |-> s.injected, again |-> FALSE, retried |-> {}]

NoCall(op) == Log(Call(op, Template(<<>>, {}), {}, 0))

----------------------------------------------------------------------------
(* The world before the first pass *)

\* a Metal3Data of this template as CreateDatas names it; its machine
\* reference may have been left unset
InitData ==
    {Metal3Data([Name |-> TemplateName], i, DataName(TemplateName, Itoa(i)), mach) :
        i \in InitIndexes, mach \in Machines \cup {Nil}}

\* Metal3Data of the namespace that do not point to this template
OtherData ==
    {[Name |-> DataName(<<"oth">>, Itoa(0)), Index |-> 0,
      DataTemplate |-> <<"oth">>, Metal3Machine |-> "m1"],
     [Name |-> <<"loose">>, Index |-> 1,
      DataTemplate |-> NoTemplate, Metal3Machine |-> Nil]}

\* the Metal3Data of this template have unique names, and a single
\* reconciler leaves at most one per machine
InitWorlds ==
    {w \cup OtherData : w \in
        {v \in SUBSET InitData :
            /\ \A a, b \in v : a.Name = b.Name => a = b
            /\ \A a, b \in v :
                  (a.Metal3Machine = b.Metal3Machine /\ a.Metal3Machine # Nil) => a = b}}

\* the owner references the template may carry
OwnerRefSeqs ==
    {r \in SeqsUpTo({M3MRef(n) : n \in Machines}, MaxRefs) : NoRepeat(r)}
    \cup {<<ClusterRef, M3MRef("m1")>>, <<M3MRef("m1"), BadRef>>,
          <<M3MRef(GoneMachine), M3MRef("m2")>>}

----------------------------------------------------------------------------
(* Spec: one manager, its calls in any order, and the template's owner     *)
(* references changing between calls                                       *)

Init ==
    /\ \E labels \in {{}, {ClusterLabelName}} :
          DataTemplate = [p \in Managers |-> Template(<<>>, labels)]
    /\ world \in InitWorlds
    /\ m3machines = Machines
    /\ now = 1
    /\ faults = MaxFaults
    /\ last = NoCall("none")
    /\ arg = <<>>
    /\ res = [called |-> FALSE]

\* the call ends as x: the manager's template, the world and the result
Ends(p, x) ==
    /\ DataTemplate' = [DataTemplate EXCEPT ![p] = x.t]
    /\ world' = x.w
    /\ faults' = x.budget
    /\ last' = [Log(x) EXCEPT
                   !.again = (last.op = x.op /\ last.ret = "nil"),
                   !.retried = IF last.op = "CreateDatas" /\ x.op = "CreateDatas"
                                  /\ last.ret # "ListError"
                               THEN last.conflicts ELSE {}]
    /\ now' = IF x.t.Status.LastUpdated = now THEN Later(now) ELSE now
    /\ UNCHANGED <<m3machines, arg, res>>

RecreateStatusConditionally(p) ==
    \E x \in RecreateStatusConditionallyOutcomes(
                Call("RecreateStatusConditionally", DataTemplate[p], world, faults), now) :
        Ends(p, x)

RecreateStatus(p) ==
    \E x \in RecreateStatusOutcomes(
                Call("RecreateStatus", DataTemplate[p], world, faults), now) :
        Ends(p, IF x.ret = Running THEN Return(x, "nil") ELSE x)

\* the reconciler has rebuilt the status (RecreateStatusConditionally) before
\* it deletes or creates: LastUpdated is set
StatusBuilt(p) == DataTemplate[p].Status.LastUpdated # 0

CreateDatas(p) ==
    /\ StatusBuilt(p)
    /\ \E x \in CreateDatasOutcomes(
                Call("CreateDatas", DataTemplate[p], world, faults), m3machines, now) :
          Ends(p, x)

DeleteDatas(p) ==
    /\ StatusBuilt(p)
    /\ \E x \in DeleteDatasOutcomes(
                Call("DeleteDatas", DataTemplate[p], world, faults), now) :
          Ends(p, x)

\* the owner references of the template change (machines come and go);
\* every reconciler reads them from the template
SetOwnerReferences(p) ==
    \E refs \in OwnerRefSeqs :
        /\ refs # DataTemplate[p].OwnerReferences
        /\ DataTemplate' =
              [q \in Managers |-> [DataTemplate[q] EXCEPT !.OwnerReferences = refs]]
        /\ last' = NoCall("SetOwnerReferences")
        /\ UNCHANGED <<world, m3machines, now, faults, arg, res>>

Next ==
    \/ RecreateStatusConditionally("r1")
    \/ RecreateStatus("r1")
    \/ CreateDatas("r1")
    \/ DeleteDatas("r1")
    \/ SetOwnerReferences("r1")

Spec == Init /\ [][Next]_vars

----------------------------------------------------------------------------
(* SpecRace: two reconcilers of the same template, each with its own copy  *)
(* of the status, their passes interleaved; no collaborator errors         *)

RaceInit ==
    /\ DataTemplate = [p \in Managers |-> Template(<<>>, {ClusterLabelName})]
    /\ world = OtherData
    /\ m3machines = Machines
    /\ now = 1
    /\ faults = 0
    /\ last = NoCall("none")
    /\ arg = <<>>
    /\ res = [called |-> FALSE]

\* the race goes on while the indexes stay among these
RaceIndexes == 0..MaxIndex

\* the owner references during the race: m1 and m2 join, m1 leaves
RaceRefSeqs == {<<>>, <<M3MRef("m1"), M3MRef("m2")>>, <<M3MRef("m2")>>}

\* the call of reconciler p ends as x; of the call, `last` keeps who made it,
\* what it returned, what it created and which owners hit a conflict
RaceEnds(p, x) ==
    /\ DataTemplate' = [DataTemplate EXCEPT ![p] = x.t]
    /\ world' = x.w
    /\ last' = [NoCall(x.op) EXCEPT !.ret = x.ret, !.conflicts = x.conflicts]
    /\ UNCHANGED <<m3machines, now, faults, arg, res>>

RaceRecreate(p) ==
    \E x \in RecreateStatusConditionallyOutcomes(
                Call("RecreateStatusConditionally", DataTemplate[p], world, faults), now) :
        RaceEnds(p, x)

RaceCreate(p) ==
    /\ StatusBuilt(p)
    /\ \E x \in CreateDatasOutcomes(
                Call("CreateDatas", DataTemplate[p], world, faults), m3machines, now) :
          /\ \A o \in x.w : o.Index \in RaceIndexes
          /\ RaceEnds(p, x)

RaceDelete(p) ==
    /\ StatusBuilt(p)
    /\ \E x \in DeleteDatasOutcomes(
                Call("DeleteDatas", DataTemplate[p], world, faults), now) :
          RaceEnds(p, x)

RaceSetOwnerReferences ==
    \E refs \in RaceRefSeqs :
        /\ refs # DataTemplate["r1"].OwnerReferences
        /\ DataTemplate' =
              [q \in Managers |-> [DataTemplate[q] EXCEPT !.OwnerReferences = refs]]
        /\ last' = NoCall("SetOwnerReferences")
        /\ UNCHANGED <<world, m3machines, now, faults, arg, res>>

RaceNext ==
    \/ \E p \in Managers : RaceRecreate(p)
    \/ \E p \in Managers : RaceCreate(p)
    \/ \E p \in Managers : RaceDelete(p)
    \/ RaceSetOwnerReferences

SpecRace == RaceInit /\ [][RaceNext]_vars

\* C2: whatever the interleaving of the passes of two reconcilers, each on
\* its own copy of the status, no two Metal3Data of the template in the
\* world have the same index: the create call lets the first writer win
\* and the loser adds nothing at that index
C2_NoSharedIndex ==
    \A a, b \in {o \in world : o.DataTemplate = TemplateName} :
        a.Index = b.Index => a = b

\* a creation pass on a stale copy lost the race for index 0 to the other
\* reconciler: m1 hit the conflict, index 0 stays with m2, m1 has nothing
C2_Witness ==
    /\ last.op = "CreateDatas"
    /\ last.conflicts = {"m1"}
    /\ \E o \in world :
          o.DataTemplate = TemplateName /\ o.Index = 0 /\ o.Metal3Machine = "m2"
    /\ ~\E o \in world : o.DataTemplate = TemplateName /\ o.Metal3Machine = "m1"

\* C6: whatever the interleaving, no two Metal3Data of the template refer
\* to the same Metal3Machine
C6_OneDataPerOwner ==
    \A a, b \in {o \in world : o.DataTemplate = TemplateName} :
        (a.Metal3Machine = b.Metal3Machine /\ a.Metal3Machine # Nil) => a = b

----------------------------------------------------------------------------
(* LiveSpec: the owner references no longer change, the template has its   *)
(* cluster label and its owner references parse; the reconciler keeps      *)
(* calling the three passes, and the collaborators fail at most MaxFaults  *)
(* times                                                                   *)

LiveRefSeqs ==
    {r \in OwnerRefSeqs : \A i \in 1..Len(r) : ~ParseGroupVersion(r[i].APIVersion).err}

LiveInit ==
    /\ \E refs \in LiveRefSeqs :
          DataTemplate = [p \in Managers |-> Template(refs, {ClusterLabelName})]
    /\ world \in InitWorlds
    /\ m3machines = Machines
    /\ now = 1
    /\ faults = MaxFaults
    /\ last = NoCall("none")
    /\ arg = <<>>
    /\ res = [called |-> FALSE]

LiveNext ==
    \/ RecreateStatusConditionally("r1")
    \/ CreateDatas("r1")
    \/ DeleteDatas("r1")

LiveSpec ==
    /\ LiveInit
    /\ [][LiveNext]_vars
    /\ WF_vars(RecreateStatusConditionally("r1"))
    /\ WF_vars(CreateDatas("r1"))
    /\ WF_vars(DeleteDatas("r1"))

\* the owner reference is a Metal3Machine of the provider's group that
\* resolves, and it has its Metal3Data in the world, named in DataNames
Provisioned(ref) ==
    (IsM3MRef(ref) /\ ref.Name \in m3machines) =>
        /\ ref.Name \in DOMAIN DataTemplate["r1"].Status.DataNames
        /\ \E o \in world :
              /\ o.DataTemplate = TemplateName
              /\ o.Name = DataTemplate["r1"].Status.DataNames[ref.Name]
              /\ o.Metal3Machine = ref.Name

\* C7: with the owner references fixed, the passes called again and again
\* and finitely many collaborator errors, from some point on every owner
\* reference that resolves to a Metal3Machine has its Metal3Data in the
\* world and a DataNames entry that names it
C7_EventuallyProvisioned ==
    <>[](\A i \in 1..Len(DataTemplate["r1"].OwnerReferences) :
            Provisioned(DataTemplate["r1"].OwnerReferences[i]))

----------------------------------------------------------------------------
(* SpecAlloc: the index allocation of CreateDatas on every index map whose *)
(* keys are among Itoa(0), ..., Itoa(MaxKey)                               *)

AllocInputs == UNION {[keys -> {"m1"}] : keys \in SUBSET {Itoa(i) : i \in 0..MaxKey}}

AllocInit ==
    /\ DataTemplate = [p \in Managers |-> Template(<<>>, {})]
    /\ world = {}
    /\ m3machines = Machines
    /\ now = 1
    /\ faults = 0
    /\ last = NoCall("none")
    /\ arg \in AllocInputs
    /\ res = [called |-> FALSE]

Allocate ==
    /\ ~res.called
    /\ res' = [called |-> TRUE, index |-> AllocIndex(arg)]
    /\ UNCHANGED <<DataTemplate, world, m3machines, now, faults, last, arg>>

AllocNext == Allocate

SpecAlloc == AllocInit /\ [][AllocNext]_vars

\* C1: the index allocated on an index map whose keys encode non-negative
\* integers is the smallest non-negative integer i such that Itoa(i) is not
\* a key of the map, whether or not the keys have gaps
C1_SmallestFreeIndex ==
    res.called =>
        /\ res.index >= 0
        /\ Itoa(res.index) \notin DOMAIN arg
        /\ \A j \in 0..(res.index - 1) : Itoa(j) \in DOMAIN arg

\* keys {0,1,3}: a gap, and a highest key that exceeds the entry count
C1_Witness ==
    /\ res.called
    /\ DOMAIN arg = {Itoa(0), Itoa(1), Itoa(3)}
    /\ res.index = 2

----------------------------------------------------------------------------
(* SpecReady: DeleteReady on every list of owner references               *)

ReadyPool == {M3MRef("m1"), ClusterRef, ForeignM3MRef, CoreRef, BadRef}
ReadyInputs == {r \in SeqsUpTo(ReadyPool, MaxReadyRefs) : NoRepeat(r)}

ReadyInit ==
    /\ \E refs \in ReadyInputs :
          DataTemplate = [p \in Managers |-> Template(refs, {})]
    /\ world = {}
    /\ m3machines = Machines
    /\ now = 1
    /\ faults = 0
    /\ last = NoCall("none")
    /\ arg = <<>>
    /\ res = [called |-> FALSE]

DeleteReady(p) ==
    /\ ~res.called
    /\ LET r == DeleteReadyOf(DataTemplate[p])
       IN  res' = [called |-> TRUE, ready |-> r.ready, err |-> r.err]
    /\ UNCHANGED <<DataTemplate, world, m3machines, now, faults, last, arg>>

ReadyNext == DeleteReady("r1")

SpecReady == ReadyInit /\ [][ReadyNext]_vars

\* C5: DeleteReady returns true if and only if no owner reference is a
\* Metal3Machine of the provider's API group (the test of the creation and
\* deletion paths); stated for the calls that return no error
C5_ReadyIffNoMatchingOwner ==
    (res.called /\ ~res.err) =>
        (res.ready <=>
            \A i \in 1..Len(DataTemplate["r1"].OwnerReferences) :
                ~IsM3MRef(DataTemplate["r1"].OwnerReferences[i]))

----------------------------------------------------------------------------
(* Properties on Spec. The manager is r1. *)

Indexes == DataTemplate["r1"].Status.Indexes
DataNames == DataTemplate["r1"].Status.DataNames
OwnerReferences == DataTemplate["r1"].OwnerReferences

\* the Metal3Data of the world that point to the template
TemplateData == {o \in world : o.DataTemplate = TemplateName}

\* the owner name RecreateStatus reads from a Metal3Data
OwnerOf(o) == IF o.Metal3Machine # Nil THEN o.Metal3Machine ELSE ""

HardErrors ==
    {"ParseError", "ResolveError", "NoClusterName", "CreateError", "ListError",
     "GetError", "DeleteError"}

\* C3: after a creation or deletion pass that returned no error, the keys
\* of DataNames are the values of Indexes, and every entry Indexes[i] = o
\* has DataNames[o] naming the Metal3Data of owner o at index i
C3_MutualConsistency ==
    (last.op \in {"CreateDatas", "DeleteDatas"} /\ last.ret = "nil") =>
        /\ DOMAIN DataNames = MapValues(Indexes)
        /\ \A i \in DOMAIN Indexes :
              /\ Indexes[i] \in DOMAIN DataNames
              /\ \E o \in TemplateData :
                    /\ o.Name = DataNames[Indexes[i]]
                    /\ Itoa(o.Index) = i
                    /\ OwnerOf(o) = Indexes[i]

\* C4: every conflict of a creation pass is followed by RecreateStatus; a
\* pass that no hard error aborts visits every owner reference; it returns
\* the requeue error if and only if an owner hit a conflict and no hard
\* error aborted it; and after the rebuild every Metal3Data of the template
\* has its index in Indexes
C4_ConflictRequeues ==
    last.op = "CreateDatas" =>
        /\ last.recreated = Cardinality(last.conflicts)
        /\ (last.ret = "RequeueAfterError") <=>
              (last.conflicts # {} /\ last.ret \notin HardErrors)
        /\ last.ret \notin HardErrors => last.visited = Len(OwnerReferences)
        /\ last.ret = "RequeueAfterError" =>
              \A o \in TemplateData : Itoa(o.Index) \in DOMAIN Indexes

\* a pass in which one owner hit a conflict and a later owner got its
\* Metal3Data, ending with the requeue error
C4_Witness ==
    /\ last.op = "CreateDatas"
    /\ last.ret = "RequeueAfterError"
    /\ last.conflicts # {}
    /\ last.created # {}
    /\ \E o \in last.created : o.Metal3Machine \notin last.conflicts

\* C8: a creation pass that follows a creation pass which returned nil,
\* with the same owner references and no collaborator error, creates no
\* Metal3Data, changes no entry of Indexes or DataNames, and returns nil
C8_CreateIdempotent ==
    [][(/\ last.op = "CreateDatas" /\ last.ret = "nil"
        /\ last'.op = "CreateDatas" /\ ~last'.injected)
       => (/\ world' = world
           /\ Indexes' = Indexes
           /\ DataNames' = DataNames
           /\ last'.created = {}
           /\ last'.ret = "nil")]_vars

\* the second of two creation passes, the first of which created the
\* Metal3Data of two owners
C8_Witness ==
    /\ last.op = "CreateDatas"
    /\ last.again
    /\ last.ret = "nil"
    /\ \E a, b \in TemplateData :
          /\ a # b
          /\ a.Metal3Machine = "m1" /\ b.Metal3Machine = "m2"
          /\ DataNames["m1"] = a.Name /\ DataNames["m2"] = b.Name

\* C9: a deletion pass that returns nil deletes the Metal3Data of every
\* owner that had a DataNames entry and is not among the Metal3Machine
\* owner references, and removes its DataNames entry and its Indexes entry;
\* the deletion pass after it issues no get or delete and leaves both maps
\* unchanged
C9_DeleteOnce ==
    [][(last'.op = "DeleteDatas" /\ last'.ret = "nil")
       => (/\ \A o \in DOMAIN DataNames :
                 OwnerPresent(OwnerReferences, o, 1) = "absent" =>
                    /\ o \notin DOMAIN DataNames'
                    /\ o \notin MapValues(Indexes')
                    /\ ~NameTaken(world', DataNames[o])
           /\ (last.op = "DeleteDatas" /\ last.ret = "nil") =>
                 /\ last'.gets = {} /\ last'.deletes = {}
                 /\ Indexes' = Indexes /\ DataNames' = DataNames)]_vars

\* C10: two successive runs of RecreateStatus over the same Metal3Data
\* objects yield the same Indexes and DataNames
C10_RecreateIdempotent ==
    [][(/\ last.op = "RecreateStatus" /\ last.ret = "nil"
        /\ last'.op = "RecreateStatus" /\ last'.ret = "nil")
       => (Indexes' = Indexes /\ DataNames' = DataNames)]_vars

\* the owner references CreateDatas gives a Metal3Data to: the Metal3Machine
\* references of the provider's group whose machine resolves, in their order
Resolvable(refs) ==
    SelectSeq(refs, LAMBDA ref : IsM3MRef(ref) /\ ref.Name \in m3machines)

\* C11: a creation pass that starts from empty Indexes and DataNames, with
\* the cluster label, owner references that parse, no conflict and no
\* collaborator error, returns nil, gives the k owners that resolve the
\* indexes 0..k-1 in the order of the owner references, names the j-th
\* Metal3Data Name-"j-1" in DataNames, and creates exactly these k Metal3Data
C11_EndToEndCreation ==
    [][(/\ last'.op = "CreateDatas"
        /\ Indexes = EmptyMap /\ DataNames = EmptyMap
        /\ ClusterLabelName \in DataTemplate["r1"].Labels
        /\ \A i \in 1..Len(OwnerReferences) :
              ~ParseGroupVersion(OwnerReferences[i].APIVersion).err
        /\ last'.conflicts = {} /\ ~last'.injected)
       => LET owners == Resolvable(OwnerReferences)
              k == Len(owners)
          IN  /\ last'.ret = "nil"
              /\ DOMAIN Indexes' = {Itoa(j - 1) : j \in 1..k}
              /\ DOMAIN DataNames' = {owners[j].Name : j \in 1..k}
              /\ \A j \in 1..k :
                    /\ Indexes'[Itoa(j - 1)] = owners[j].Name
                    /\ DataNames'[owners[j].Name] =
                          TemplateName \o <<"-">> \o Itoa(j - 1)
              /\ last'.created =
                    {[Name |-> TemplateName \o <<"-">> \o Itoa(j - 1), Index |-> j - 1,
                      DataTemplate |-> TemplateName,
                      Metal3Machine |-> owners[j].Name] : j \in 1..k}
              /\ world' = world \cup last'.created]_vars

\* owners [m1, m2] on an empty status: indexes {"0": m1, "1": m2}, names
\* tpl-0 and tpl-1, two Metal3Data created
C11_Witness ==
    /\ last.op = "CreateDatas" /\ last.ret = "nil"
    /\ OwnerReferences = <<M3MRef("m1"), M3MRef("m2")>>
    /\ Indexes = (<<"0">> :> "m1") @@ (<<"1">> :> "m2")
    /\ DataNames = ("m1" :> <<"tpl", "-", "0">>) @@ ("m2" :> <<"tpl", "-", "1">>)
    /\ Cardinality(last.created) = 2
    /\ last.created \subseteq world

\* owner o holds index i: the status maps i to o and o to the name of a
\* Metal3Data of the world that has index i and refers to o
HoldsIndex(t, w, o, i) ==
    /\ Itoa(i) \in DOMAIN t.Status.Indexes
    /\ t.Status.Indexes[Itoa(i)] = o
    /\ o \in DOMAIN t.Status.DataNames
    /\ \E d \in w :
          /\ d.DataTemplate = t.Name
          /\ d.Name = t.Status.DataNames[o]
          /\ d.Index = i
          /\ d.Metal3Machine = o

\* C12: an owner that holds index i and is among the Metal3Machine owner
\* references before and after a creation, deletion or reconstruction pass
\* still has Indexes[i] = owner and the same DataNames entry after the pass
C12_IndexStable ==
    [][\A o \in Machines : \A i \in 0..MaxKey :
          (/\ HoldsIndex(DataTemplate["r1"], world, o, i)
           /\ OwnerPresent(OwnerReferences, o, 1) = "present"
           /\ OwnerPresent(OwnerReferences', o, 1) = "present")
          => (/\ Itoa(i) \in DOMAIN Indexes'
              /\ Indexes'[Itoa(i)] = o
              /\ o \in DOMAIN DataNames'
              /\ DataNames'[o] = DataNames[o])]_vars

\* o is the name of a Metal3Machine owner reference of the provider's group
AmongOwners(refs, o) ==
    \E k \in 1..Len(refs) : IsM3MRef(refs[k]) /\ refs[k].Name = o

----------------------------------------------------------------------------
(* SpecStale: one pass of a reconciler whose copy of the status was built  *)
(* from the Metal3Data of an earlier moment, on the world of now           *)

\* the statuses RecreateStatus builds from the worlds
StaleStatuses ==
    UNION {{x.t.Status :
               x \in RecreateStatusOutcomes(
                        Call("RecreateStatus", Template(<<>>, {}), w, 0), 1)}
           : w \in InitWorlds}

StaleInit ==
    /\ \E labels \in {{}, {ClusterLabelName}} : \E refs \in OwnerRefSeqs :
       \E status \in StaleStatuses :
          DataTemplate =
             [p \in Managers |-> [Template(refs, labels) EXCEPT !.Status = status]]
    /\ world \in InitWorlds
    /\ m3machines = Machines
    /\ now = 1
    /\ faults = MaxFaults
    /\ last = NoCall("none")
    /\ arg = <<>>
    /\ res = [called |-> FALSE]

\* no pass has been made yet
FirstPass == last.op = "none"

StaleNext ==
    \/ FirstPass /\ RecreateStatusConditionally("r1")
    \/ FirstPass /\ RecreateStatus("r1")
    \/ FirstPass /\ CreateDatas("r1")
    \/ FirstPass /\ DeleteDatas("r1")
    \/ last.op = "CreateDatas" /\ CreateDatas("r1")

SpecStale == StaleInit /\ [][StaleNext]_vars

\* C14: a creation pass in which a collaborator failed returns that error,
\* never nil or the requeue error; when the create call failed with an
\* error other than a conflict the pass stopped at that owner reference:
\* every Metal3Data it created belongs to an earlier owner reference, and
\* RecreateStatus ran once per conflict and not for the failure
C14_CreateErrorAborts ==
    last.op = "CreateDatas" =>
        /\ last.injected => last.ret \in {"ResolveError", "CreateError", "ListError"}
        /\ last.ret = "CreateError" =>
              /\ last.injected
              /\ last.visited \in 1..Len(OwnerReferences)
              /\ IsM3MRef(OwnerReferences[last.visited])
              /\ \A d \in last.created :
                    \E k \in 1..(last.visited - 1) :
                        OwnerReferences[k].Name = d.Metal3Machine
              /\ last.recreated = Cardinality(last.conflicts)
              /\ OwnerReferences[last.visited].Name \notin last.conflicts

\* the first owner hit a conflict, the create call of the second failed:
\* the pass returned the error, not the requeue error
C14_Witness ==
    /\ last.op = "CreateDatas"
    /\ last.ret = "CreateError"
    /\ last.conflicts = {OwnerReferences[1].Name}
    /\ last.visited = 2
    /\ last.requeueNeeded

----------------------------------------------------------------------------
(* Properties of the creation pass without the cluster label *)

\* the k-th owner reference is one CreateDatas would give a Metal3Data to:
\* a Metal3Machine of the provider's group, without DataNames entry, that
\* resolves, with no owner reference before it that fails to parse
Needy(t, k) ==
    /\ IsM3MRef(t.OwnerReferences[k])
    /\ t.OwnerReferences[k].Name \notin DOMAIN t.Status.DataNames
    /\ t.OwnerReferences[k].Name \in m3machines
    /\ \A j \in 1..(k - 1) : ~ParseGroupVersion(t.OwnerReferences[j].APIVersion).err

\* C15: on a template without the cluster label, a creation pass without
\* collaborator error returns the configuration error exactly when it
\* reaches an owner reference that needs a Metal3Data; it then leaves
\* Indexes, DataNames and the world as they were and creates nothing, and
\* it stopped at that owner reference. When every owner reference is
\* skipped (other kind or group, has an entry, does not resolve) it
\* returns nil
C15_MissingLabel ==
    [][(last'.op = "CreateDatas" /\ ~last'.injected
        /\ ClusterLabelName \notin DataTemplate["r1"].Labels)
       => LET t == DataTemplate["r1"]
              n == Len(t.OwnerReferences)
          IN  /\ (\E k \in 1..n : Needy(t, k)) <=> last'.ret = "NoClusterName"
              /\ last'.ret = "NoClusterName" =>
                    /\ Needy(t, last'.visited)
                    /\ \A j \in 1..(last'.visited - 1) : ~Needy(t, j)
              /\ Indexes' = Indexes /\ DataNames' = DataNames
              /\ world' = world /\ last'.created = {}
              /\ ((\A k \in 1..n : ~Needy(t, k)) /\
                  (\A k \in 1..n : ~ParseGroupVersion(t.OwnerReferences[k].APIVersion).err))
                    => last'.ret = "nil"]_vars

\* no label, owner references [m3, m2] with m3 gone: m3 is skipped, m2
\* triggers the error; nothing is recorded or created
C15_Witness ==
    /\ last.op = "CreateDatas"
    /\ last.ret = "NoClusterName"
    /\ last.visited = 2
    /\ OwnerReferences = <<M3MRef(GoneMachine), M3MRef("m2")>>
    /\ Indexes = EmptyMap /\ DataNames = EmptyMap
    /\ last.created = {}

----------------------------------------------------------------------------
(* Properties of the reconstruction *)

\* C16: when RecreateStatus has completed, the keys of Indexes are the
\* indexes of the Metal3Data of the world that refer to the template, each
\* mapped to the machine of its Metal3Data or to "" when it has none, also
\* when several have none; the Metal3Data of other templates or of no
\* template add no key; and the index allocated next is the index of none
\* of the template's Metal3Data
C16_ReconstructionReserves ==
    (last.op \in {"RecreateStatus", "RecreateStatusConditionally"}
     /\ last.recreated = 1 /\ last.ret = "nil")
    => /\ DOMAIN Indexes = {Itoa(d.Index) : d \in TemplateData}
       /\ \A d \in TemplateData :
             Indexes[Itoa(d.Index)] =
                (IF d.Metal3Machine = Nil THEN "" ELSE d.Metal3Machine)
       /\ \A d \in TemplateData : AllocIndex(Indexes) # d.Index

\* two Metal3Data without a machine, at indexes 0 and 1, next to the
\* Metal3Data of another template at index 0: both indexes are reserved
\* for "", and the next index is 2
C16_Witness ==
    /\ last.op = "RecreateStatus" /\ last.ret = "nil"
    /\ Cardinality({d \in TemplateData : d.Metal3Machine = Nil}) = 2
    /\ \E d \in world : d.DataTemplate = <<"oth">> /\ d.Index = 0
    /\ Indexes = (<<"0">> :> "") @@ (<<"1">> :> "")
    /\ AllocIndex(Indexes) = 2

----------------------------------------------------------------------------
(* Properties of the creation pass that follows a conflict *)

\* owner o, which hit a conflict in the pass before, is dealt with in this
\* pass: no conflict again, and either it is skipped because DataNames
\* names its Metal3Data in the world, or it gets a new Metal3Data
Retried(o) ==
    /\ o \notin last'.conflicts
    /\ \/ /\ o \in DOMAIN DataNames
          /\ \E d \in world : d.Name = DataNames[o] /\ d.Metal3Machine = o
       \/ \E d \in last'.created : d.Metal3Machine = o /\ d \notin world

----------------------------------------------------------------------------
(* Properties of the deletion pass when the Metal3Data is not found *)

\* C18: a deletion pass returns an error only when an owner reference
\* fails to parse or a collaborator fails with an error other than not
\* found; when it returns nil, every owner with a DataNames entry that is
\* not among the Metal3Machine owner references has no DataNames entry and
\* no Indexes entry left, whether its Metal3Data was deleted, was not found
\* by the Get, or was not found by the Delete; when it returns the error of
\* the Get or of the Delete, the entries of the owner it was dealing with
\* are as before
C18_NotFoundTolerated ==
    [][last'.op = "DeleteDatas" =>
          /\ last'.ret \in {"nil", "ParseError", "GetError", "DeleteError"}
          /\ last'.ret = "nil" =>
                \A o \in DOMAIN DataNames :
                    ~AmongOwners(OwnerReferences, o) =>
                       /\ o \notin DOMAIN DataNames'
                       /\ o \notin MapValues(Indexes')
                       /\ ~\E d \in world' : d.Name = DataNames[o]
          /\ last'.ret \in {"GetError", "DeleteError"} =>
                /\ last'.injected
                /\ \E o \in last'.gets :
                      /\ o \in DOMAIN DataNames' /\ DataNames'[o] = DataNames[o]
                      /\ \A i \in DOMAIN Indexes :
                            Indexes[i] = o => (i \in DOMAIN Indexes' /\ Indexes'[i] = o)]_vars

----------------------------------------------------------------------------
(* Properties of the status after a failure *)

\* C19: however a creation pass ends, every owner it has given a DataNames
\* entry has the Metal3Data of that name in the world, and every Indexes
\* entry it has added belongs to such an owner
C19_NoPhantomEntry ==
    [][last'.op = "CreateDatas" =>
          /\ \A o \in (DOMAIN DataNames') \ (DOMAIN DataNames) :
                \E d \in world' : d.Name = DataNames'[o]
          /\ \A i \in (DOMAIN Indexes') \ (DOMAIN Indexes) :
                /\ Indexes'[i] \in DOMAIN DataNames'
                /\ \E d \in world' : d.Name = DataNames'[Indexes'[i]]]_vars

\* C20: a call that returns the error of the List in RecreateStatus,
\* made directly, through RecreateStatusConditionally or on the conflict
\* path of CreateDatas, leaves Indexes, DataNames and LastUpdated as they
\* were before the call
C20_ListErrorKeepsStatus ==
    [][last'.ret = "ListError" =>
          /\ Indexes' = Indexes
          /\ DataNames' = DataNames
          /\ DataTemplate'["r1"].Status.LastUpdated =
                DataTemplate["r1"].Status.LastUpdated]_vars

====
